---- MODULE Spec2Model ----
(***************************************************************************)
(* Model of the asset-generation script asset_generation_blueprint.py:     *)
(* the interactive dispatcher, the synchronous and asynchronous transport  *)
(* helpers, the video poll loop and the per-mode generation functions.     *)
(*                                                                         *)
(* Text typed at a prompt is a sequence of one-character strings, so that  *)
(* strip(), lower(), int() and float() are computed character by           *)
(* character.  Time is in whole seconds.  Numbers parsed by float() are    *)
(* kept in hundredths.                                                     *)
(***************************************************************************)
EXTENDS Integers, Sequences, FiniteSets, TLC

\* ------------------------------------------------------------------ bounds
\* Largest number of status GETs counted exactly; the counter saturates here.
MaxGets == 56
\* Largest elapsed time (seconds since the first poll) tracked; saturates.
MaxClock == 600

\* ------------------------------------------------------- program constants
\* poll_interval default of send_async_generation_request
PollInterval == 10
\* timeout default of send_async_generation_request
Timeout == 500
\* the fixed sleep of the video loop
VideoSleep == 10
\* the pixel-area limit of upscale_image
MaxPixels == 1048576

None == "None"

\* ------------------------------------------------------------ text helpers
Digits == {"0", "1", "2", "3", "4", "5", "6", "7", "8", "9"}

DigitVal(c) ==
    CASE c = "0" -> 0 [] c = "1" -> 1 [] c = "2" -> 2 [] c = "3" -> 3
      [] c = "4" -> 4 [] c = "5" -> 5 [] c = "6" -> 6 [] c = "7" -> 7
      [] c = "8" -> 8 [] c = "9" -> 9

\* str.strip(): drop leading and trailing blanks
RECURSIVE LStrip(_)
LStrip(s) == IF s # <<>> /\ Head(s) = " " THEN LStrip(Tail(s)) ELSE s

RECURSIVE RStrip(_)
RStrip(s) ==
    IF s # <<>> /\ s[Len(s)] = " " THEN RStrip(SubSeq(s, 1, Len(s) - 1)) ELSE s

Strip(s) == RStrip(LStrip(s))

\* str.lower() on the letters the prompts use
LowerChar(c) ==
    CASE c = "I" -> "i" [] c = "M" -> "m" [] c = "G" -> "g" [] c = "V" -> "v"
      [] c = "D" -> "d" [] c = "E" -> "e" [] c = "O" -> "o" [] c = "S" -> "s"
      [] OTHER -> c

Lower(s) == [i \in 1..Len(s) |-> LowerChar(s[i])]

\* Python's  x or default  on strings
OrDefault(s, d) == IF s = <<>> THEN d ELSE s

AllDigits(s) == s # <<>> /\ \A i \in 1..Len(s) : s[i] \in Digits

RECURSIVE DigitsVal(_)
DigitsVal(s) ==
    IF s = <<>> THEN 0
    ELSE DigitsVal(SubSeq(s, 1, Len(s) - 1)) * 10 + DigitVal(s[Len(s)])

HasSign(s) == s # <<>> /\ Head(s) \in {"-", "+"}
Unsigned(s) == IF HasSign(s) THEN Tail(s) ELSE s
Sign(s) == IF s # <<>> /\ Head(s) = "-" THEN -1 ELSE 1

\* int(s): ValueError unless an optional sign followed by digits
IntOk(s) == AllDigits(Unsigned(Strip(s)))
IntVal(s) == Sign(Strip(s)) * DigitsVal(Unsigned(Strip(s)))

\* position of the first "." in s, 0 if none
RECURSIVE DotPos(_, _)
DotPos(s, i) ==
    IF i > Len(s) THEN 0 ELSE IF s[i] = "." THEN i ELSE DotPos(s, i + 1)

IntPart(s) == IF DotPos(s, 1) = 0 THEN s ELSE SubSeq(s, 1, DotPos(s, 1) - 1)
FracPart(s) == IF DotPos(s, 1) = 0 THEN <<>> ELSE SubSeq(s, DotPos(s, 1) + 1, Len(s))

NaN == <<"n", "a", "n">>

\* float(s): ValueError unless "nan" or an optional sign and a decimal
\* numeral with at least one digit and at most one "."
FloatIsNaN(s) == Lower(Unsigned(Strip(s))) = NaN

FloatOk(s) ==
    LET u == Unsigned(Strip(s)) IN
    \/ FloatIsNaN(s)
    \/ /\ IntPart(u) # <<>> \/ FracPart(u) # <<>>
       /\ IntPart(u) = <<>> \/ AllDigits(IntPart(u))
       /\ FracPart(u) = <<>> \/ AllDigits(FracPart(u))

\* the value in hundredths (inputs carry at most two decimals)
FloatVal(s) ==
    LET u == Unsigned(Strip(s))
        f == FracPart(u)
        f2 == IF Len(f) = 0 THEN 0
              ELSE IF Len(f) = 1 THEN DigitVal(f[1]) * 10
              ELSE DigitVal(f[1]) * 10 + DigitVal(f[2])
    IN Sign(Strip(s)) * (DigitsVal(IntPart(u)) * 100 + f2)


\* ------------------------------------------------------------------ inputs
S_img == <<"i", "m", "g">>
S_video == <<"v", "i", "d", "e", "o">>
S_3d == <<"3", "d">>
S_sketch == <<"s", "k", "e", "t", "c", "h">>
S_sd3 == <<"s", "d", "3">>
S_upscale == <<"u", "p", "s", "c", "a", "l", "e">>
S_3d_aware == <<"3", "d", "-", "a", "w", "a", "r", "e">>

S_jpeg == <<"j", "p", "e", "g">>
S_png == <<"p", "n", "g">>
S_3_2 == <<"3", ":", "2">>
S_1024 == <<"1", "0", "2", "4">>
S_triangle == <<"t", "r", "i">>
S_cat == <<"c", "a", "t">>
S_fog == <<"f", "o", "g">>

\* files on disk: a.png exists, b.png does not
F_a == <<"a", ".", "p", "n", "g">>
F_b == <<"b", ".", "p", "n", "g">>
ExistingFiles == {F_a}
PathExists(path) == path \in ExistingFiles

\* what the user may type at each prompt
ModeInputs ==
    {<<>>, <<" ", "I", "M", "G">>, S_video, S_3d, S_sketch, S_sd3, S_upscale,
     S_3d_aware, <<"x">>}
PromptInputs == {<<>>, <<" ">>, S_cat}
NegInputs == {<<>>, S_fog}
PathInputs == {<<>>, F_a, F_b}
SeedInputs == {<<>>, <<"7">>, <<"x">>}
FormatInputs == {<<>>, S_png}
NumberInputs == {<<>>, <<"x">>}
StrengthInputs == {<<>>, <<"1">>, <<"1", ".", "5">>, <<"-", "1">>, NaN, <<"x">>}
AwareRatioInputs == {<<>>, <<"0", ".", "5">>, <<"x">>}
ModelInputs == {<<>>, <<"2">>, <<"3">>, <<"9">>}
\* the upscale prompts, kept narrower because every answer is carried
\* through the whole poll loop
UpscaleNegInputs == {<<>>}
CreativityInputs == {<<>>, <<"1", ".", "5">>, NaN, <<"x">>}

\* sizes Image.open may report for the file to upscale
ImageSizes == {<<512, 512>>, <<1024, 1024>>, <<1024, 1025>>, <<1025, 1025>>}

\* what the service may answer
StatusCodes == {200, 202, 204, 404}
FinishReasons == {"", "SUCCESS", "CONTENT_FILTERED"}
JobIds == {"job1", "", None, "BadJSON"}
\* seconds a request may take
Latencies == {0, 1}

\* requests.Response.ok: no 4xx or 5xx status
Ok(status) == ~(400 <= status /\ status < 600)

\* the service sets the finish-reason header on a finished result only
Final(status) == Ok(status) /\ status # 202

\* --------------------------------------------------------------- the state
VARIABLES
    pc,        \* position of the script
    api_key,   \* STABILITY_API_KEY as read from the environment
    mode,      \* the mode chosen at the first prompt
    typed,     \* what the user typed at the mode's prompts
    args,      \* the arguments interactive_main passes to generate_*
    size,      \* <<width, height>> of the image upscale_image inspected
    err,       \* the error message printed, "" if none
    exitCode,  \* the process exit status, None while running
    data,      \* the form fields of the submission POST
    files,     \* the helper's files mapping: a set of <<key, handle>>
    open,      \* the file handles currently open
    resp,      \* the most recent HTTP response
    pollId,    \* the job id in the URL of the most recent status GET
    posts,     \* number of POSTs issued
    gets,      \* number of status GETs issued
    n202,      \* number of status GETs answered 202
    now,       \* the clock, in seconds since the script started
    start,     \* the clock when polling began
    written,   \* the names of the output files written, in order
    ret,       \* the value returned by a library function called on its own
    plan_text,         \* text pipeline: the plan
    output_file,       \* text pipeline: the name of the JSON file to write
    items,             \* text pipeline: the outline, a list of items
    explanation,       \* text pipeline: the explanation of the current item
    processed_list,    \* text pipeline: the items processed so far
    calls,             \* text pipeline: the chat-completion calls made, in order
    txt_output_lines   \* text pipeline: the lines of the text report

\* the state of the text pipeline
canvas ==
    <<plan_text, output_file, items, explanation, processed_list, calls,
      txt_output_lines>>

\* what the asset script never touches
others == <<ret, canvas>>

\* the text pipeline has not run
NoCanvas ==
    /\ plan_text = <<>> /\ output_file = <<>> /\ items = <<>>
    /\ explanation = None /\ processed_list = <<>> /\ calls = <<>>
    /\ txt_output_lines = <<>>

vars ==
    <<pc, api_key, mode, typed, args, size, err, exitCode, data, files, open, resp,
      pollId, posts, gets, n202, now, start, written, others>>

NoResponse == [status |-> 0, finish |-> "", id |-> None]

Init ==
    /\ pc = "startup"
    /\ api_key = None
    /\ mode = <<>>
    /\ typed = <<>>
    /\ args = <<>>
    /\ size = <<0, 0>>
    /\ err = ""
    /\ exitCode = None
    /\ data = <<>>
    /\ files = {}
    /\ open = {}
    /\ resp = NoResponse
    /\ pollId = None
    /\ posts = 0
    /\ gets = 0
    /\ n202 = 0
    /\ now = 0
    /\ start = 0
    /\ written = <<>>
    /\ ret = None
    /\ NoCanvas

\* mutant: a failed request is submitted again instead of ending the run
FatalRetry(message) ==
    /\ pc' = IF posts > 0 THEN "generate" ELSE "exited"
    /\ err' = message
    /\ exitCode' = IF posts > 0 THEN None ELSE "1"

\* print(message); exit(1)
Fatal(message) ==
    /\ pc' = "exited"
    /\ err' = message
    /\ exitCode' = "1"

\* an exception no handler catches: traceback, exit status 1
Crash(message) ==
    /\ pc' = "crashed"
    /\ err' = message
    /\ exitCode' = "1"

\* ------------------------------------------------------------ module start
\* what os.getenv("STABILITY_API_KEY") may return
ApiKeys == {None, "", "sk-key"}

\* mutant: only an absent key is refused, an empty one is accepted
StartupNoneOnly ==
    /\ pc = "startup"
    /\ \E key \in ApiKeys :
         /\ api_key' = key
         /\ IF key = None
            THEN Fatal("'STABILITY_API_KEY' not found.")
            ELSE pc' = "choose_mode" /\ UNCHANGED <<err, exitCode>>
    /\ UNCHANGED <<mode, typed, args, size, data, files, open, resp, pollId, posts,
                   gets, n202, now, start, written, others>>

\* lines 34-38: load the key; exit(1) if it is absent or empty
Startup ==
    /\ pc = "startup"
    /\ \E key \in ApiKeys :
         /\ api_key' = key
         /\ IF key = None \/ key = ""
            THEN Fatal("'STABILITY_API_KEY' not found.")
            ELSE pc' = "choose_mode" /\ UNCHANGED <<err, exitCode>>
    /\ UNCHANGED <<mode, typed, args, size, data, files, open, resp, pollId,
                   posts, gets, n202, now, start, written, others>>

\* --------------------------------------------------------- interactive_main
ChooseMode ==
    /\ pc = "choose_mode"
    /\ \E text \in ModeInputs : mode' = OrDefault(Lower(Strip(text)), S_img)
    /\ pc' = "dispatch"
    /\ UNCHANGED <<api_key, typed, args, err, exitCode, data, files, open, resp,
                   pollId, posts, gets, n202, now, start, written, size,
                   others>>

D_42 == <<"4", "2">>
D_7_5 == <<"7", ".", "5">>
D_127 == <<"1", "2", "7">>
D_0_85 == <<"0", ".", "8", "5">>
D_20000 == <<"2", "0", "0", "0", "0">>
D_0_7 == <<"0", ".", "7">>
D_0_3 == <<"0", ".", "3">>
D_1_0 == <<"1", ".", "0">>

\* input(...).strip() or default
Typed(text, default) == OrDefault(Strip(text), default)

SeedOk(text) == IntOk(Typed(text, D_42))
SeedOf(text) == IntVal(Typed(text, D_42))
FormatOf(text) == Typed(text, S_jpeg)
\* if not input_file or not os.path.exists(input_file)
PathOk(text) == Strip(text) # <<>> /\ PathExists(Strip(text))

\* mutant: only the upper end of the range is checked
StrengthErrorNoFloor(text, default, notNumber, notInRange) ==
    LET s == Typed(text, default) IN
    IF ~FloatOk(s) THEN notNumber
    ELSE IF FloatIsNaN(s) \/ ~(FloatVal(s) <= 100) THEN notInRange
    ELSE ""

\* a normalized strength: float() succeeds and 0 <= value <= 1
StrengthError(text, default, notNumber, notInRange) ==
    LET s == Typed(text, default) IN
    IF ~FloatOk(s) THEN notNumber
    ELSE IF FloatIsNaN(s) \/ ~(0 <= FloatVal(s) /\ FloatVal(s) <= 100)
         THEN notInRange
    ELSE ""

\* the first failing check of each mode's prompt sequence, "" if none fails
ImgError(prompt, seed) ==
    IF Strip(prompt) = <<>> THEN "A text prompt is required for image generation."
    ELSE IF ~SeedOk(seed) THEN "Seed must be an integer."
    ELSE ""

VideoError(path, seed, cfg, motion) ==
    IF ~PathOk(path) THEN "A valid input file is required for video generation."
    ELSE IF ~SeedOk(seed) THEN "Seed must be an integer."
    ELSE IF ~FloatOk(Typed(cfg, D_7_5)) THEN "CFG scale must be a number."
    ELSE IF ~IntOk(Typed(motion, D_127)) THEN "Motion bucket ID must be an integer."
    ELSE ""

ThreeDError(path, ratio, vertices) ==
    IF ~PathOk(path) THEN "A valid input file is required for 3D generation."
    ELSE IF ~FloatOk(Typed(ratio, D_0_85)) THEN "Foreground ratio must be a number."
    ELSE IF ~IntOk(Typed(vertices, D_20000)) THEN "Vertex count must be an integer."
    ELSE ""

\* mutant: the sketch branch forgets the prompt check
SketchErrorNoPrompt(path, prompt, strength, seed) ==
    IF ~PathOk(path) THEN "A valid sketch image file is required."
    ELSE IF StrengthError(strength, D_0_7, "n", "r") # ""
         THEN StrengthError(strength, D_0_7, "Control strength must be a number.",
                            "Control strength must be between 0 and 1.")
    ELSE IF ~SeedOk(seed) THEN "Seed must be an integer."
    ELSE ""

SketchError(path, prompt, strength, seed) ==
    IF ~PathOk(path) THEN "A valid sketch image file is required."
    ELSE IF Strip(prompt) = <<>>
         THEN "A text prompt is required for sketch-to-image generation."
    ELSE IF StrengthError(strength, D_0_7, "n", "r") # ""
         THEN StrengthError(strength, D_0_7, "Control strength must be a number.",
                            "Control strength must be between 0 and 1.")
    ELSE IF ~SeedOk(seed) THEN "Seed must be an integer."
    ELSE ""

Sd3Error(prompt, seed) ==
    IF Strip(prompt) = <<>> THEN "A text prompt is required for SD3 generation."
    ELSE IF ~SeedOk(seed) THEN "Seed must be an integer."
    ELSE ""

UpscaleError(path, prompt, seed, creativity) ==
    IF ~PathOk(path) THEN "A valid input file is required for upscaling."
    ELSE IF Strip(prompt) = <<>> THEN "A prompt is required for upscaling."
    ELSE IF ~SeedOk(seed) THEN "Seed must be an integer."
    ELSE StrengthError(creativity, D_0_3, "Creativity must be a number.",
                       "Creativity must be between 0 and 1.")

AwareError(path, ratio, vertices) ==
    LET r == Typed(ratio, D_1_0) IN
    IF ~PathOk(path) THEN "A valid input file is required for 3D aware generation."
    ELSE IF ~FloatOk(r) THEN "Foreground ratio must be a number."
    ELSE IF ~FloatIsNaN(r) /\ FloatVal(r) < 100
         THEN "Foreground ratio must be greater than or equal to 1."
    ELSE IF ~IntOk(Typed(vertices, D_20000)) THEN "Vertex count must be an integer."
    ELSE ""

\* model_map.get(model_choice, "sd3.5-large")
Sd3Model(choice) ==
    LET c == Typed(choice, <<"1">>) IN
    IF c = <<"2">> THEN "sd3-large-turbo"
    ELSE IF c = <<"3">> THEN "sd3-medium"
    ELSE "sd3.5-large"

\* leave the prompt sequence: exit(1) with the message, or call generate_*
Dispatch(message, answers, callArgs) ==
    /\ typed' = answers
    /\ IF message # ""
       THEN /\ Fatal(message)
            /\ UNCHANGED args
       ELSE /\ args' = callArgs
            /\ pc' = "generate"
            /\ UNCHANGED <<err, exitCode>>
    /\ UNCHANGED <<api_key, mode, size, data, files, open, resp, pollId, posts,
                   gets, n202, now, start, written, others>>

MainImg ==
    /\ pc = "dispatch" /\ mode = S_img
    /\ \E prompt \in PromptInputs, neg \in NegInputs, seed \in SeedInputs,
          fmt \in FormatInputs :
         Dispatch(ImgError(prompt, seed),
                  [prompt |-> prompt, negative_prompt |-> neg, seed |-> seed,
                   output_format |-> fmt],
                  [prompt |-> Strip(prompt), negative_prompt |-> Strip(neg),
                   aspect_ratio |-> S_3_2, seed |-> SeedOf(seed),
                   output_format |-> FormatOf(fmt)])

MainVideo ==
    /\ pc = "dispatch" /\ mode = S_video
    /\ \E path \in PathInputs, seed \in SeedInputs, cfg \in NumberInputs,
          motion \in NumberInputs :
         Dispatch(VideoError(path, seed, cfg, motion),
                  [path |-> path, seed |-> seed, cfg_scale |-> cfg,
                   motion_bucket_id |-> motion],
                  [image_path |-> Strip(path), seed |-> SeedOf(seed),
                   cfg_scale |-> FloatVal(Typed(cfg, D_7_5)),
                   motion_bucket_id |-> IntVal(Typed(motion, D_127))])

Main3d ==
    /\ pc = "dispatch" /\ mode = S_3d
    /\ \E path \in PathInputs, ratio \in NumberInputs, vertices \in NumberInputs :
         Dispatch(ThreeDError(path, ratio, vertices),
                  [path |-> path, foreground_ratio |-> ratio,
                   vertex_count |-> vertices],
                  [image_path |-> Strip(path), texture_resolution |-> S_1024,
                   foreground_ratio |-> FloatVal(Typed(ratio, D_0_85)),
                   remesh |-> S_triangle,
                   vertex_count |-> IntVal(Typed(vertices, D_20000))])

MainSketch ==
    /\ pc = "dispatch" /\ mode = S_sketch
    /\ \E path \in PathInputs, prompt \in PromptInputs, neg \in NegInputs,
          strength \in StrengthInputs, seed \in SeedInputs, fmt \in FormatInputs :
         Dispatch(SketchError(path, prompt, strength, seed),
                  [path |-> path, prompt |-> prompt, negative_prompt |-> neg,
                   control_strength |-> strength, seed |-> seed,
                   output_format |-> fmt],
                  [input_image |-> Strip(path), prompt |-> Strip(prompt),
                   negative_prompt |-> Strip(neg),
                   control_strength |-> FloatVal(Typed(strength, D_0_7)),
                   seed |-> SeedOf(seed), output_format |-> FormatOf(fmt)])

MainSd3 ==
    /\ pc = "dispatch" /\ mode = S_sd3
    /\ \E prompt \in PromptInputs, neg \in NegInputs, seed \in SeedInputs,
          fmt \in FormatInputs, choice \in ModelInputs :
         Dispatch(Sd3Error(prompt, seed),
                  [prompt |-> prompt, negative_prompt |-> neg, seed |-> seed,
                   output_format |-> fmt, model_choice |-> choice],
                  [prompt |-> Strip(prompt), negative_prompt |-> Strip(neg),
                   aspect_ratio |-> S_3_2, seed |-> SeedOf(seed),
                   output_format |-> FormatOf(fmt), model |-> Sd3Model(choice)])

MainUpscale ==
    /\ pc = "dispatch" /\ mode = S_upscale
    /\ \E path \in PathInputs, prompt \in PromptInputs, neg \in UpscaleNegInputs,
          seed \in SeedInputs, creativity \in CreativityInputs,
          fmt \in FormatInputs :
         Dispatch(UpscaleError(path, prompt, seed, creativity),
                  [path |-> path, prompt |-> prompt, negative_prompt |-> neg,
                   seed |-> seed, creativity |-> creativity,
                   output_format |-> fmt],
                  [input_image |-> Strip(path), prompt |-> Strip(prompt),
                   negative_prompt |-> Strip(neg), seed |-> SeedOf(seed),
                   creativity |-> FloatVal(Typed(creativity, D_0_3)),
                   output_format |-> FormatOf(fmt)])

Main3dAware ==
    /\ pc = "dispatch" /\ mode = S_3d_aware
    /\ \E path \in PathInputs, ratio \in AwareRatioInputs, vertices \in NumberInputs :
         Dispatch(AwareError(path, ratio, vertices),
                  [path |-> path, foreground_ratio |-> ratio,
                   vertex_count |-> vertices],
                  [image_path |-> Strip(path), texture_resolution |-> S_1024,
                   foreground_ratio |-> FloatVal(Typed(ratio, D_1_0)),
                   remesh |-> S_triangle,
                   vertex_count |-> IntVal(Typed(vertices, D_20000))])

Modes == {S_img, S_video, S_3d, S_sketch, S_sd3, S_upscale, S_3d_aware}

MainInvalidMode ==
    /\ pc = "dispatch" /\ mode \notin Modes
    /\ Fatal("Invalid mode specified. Please choose one of the supported modes.")
    /\ UNCHANGED <<api_key, mode, typed, args, data, files, open, resp, pollId,
                   posts, gets, n202, now, start, written, size, others>>

interactive_main ==
    \/ MainImg \/ MainVideo \/ Main3d \/ MainSketch \/ MainSd3 \/ MainUpscale
    \/ Main3dAware \/ MainInvalidMode

\* ------------------------------------------------------------ shared parts
SyncModes == {S_img, S_3d, S_sd3, S_3d_aware}

\* clock and poll counter, saturating at the bounds of the model
Tick(d) == IF now + d > MaxClock THEN MaxClock ELSE now + d
Count(n) == IF n + 1 > MaxGets THEN MaxGets ELSE n + 1

\* position of the last occurrence of c in s, 0 if none
RECURSIVE LastPos(_, _, _)
LastPos(s, c, i) ==
    IF i = 0 THEN 0 ELSE IF s[i] = c THEN i ELSE LastPos(s, c, i - 1)

\* os.path.basename
Basename(path) == SubSeq(path, LastPos(path, "/", Len(path)) + 1, Len(path))

\* os.path.splitext(name)[0]: cut at the last dot, unless it leads the name
Stem(name) ==
    LET d == LastPos(name, ".", Len(name)) IN
    IF d <= 1 THEN name ELSE SubSeq(name, 1, d - 1)

\* str(n) of an integer: its decimal digits, "-" first if negative
DigitChar(d) == CHOOSE c \in Digits : DigitVal(c) = d

RECURSIVE StrNat(_)
StrNat(n) ==
    IF n < 10 THEN <<DigitChar(n)>>
    ELSE Append(StrNat(n \div 10), DigitChar(n % 10))

Str(n) == IF n < 0 THEN <<"-">> \o StrNat(0 - n) ELSE StrNat(n)

\* the prefixes the script passes for its output names
P_generated == <<"g", "e", "n", "e", "r", "a", "t", "e", "d">>
P_sd3_generated == <<"s", "d", "3", "_", "g", "e", "n", "e", "r", "a", "t", "e", "d">>
P_model == <<"m", "o", "d", "e", "l">>
P_model_3d_aware == <<"m", "o", "d", "e", "l", "_", "3", "d", "_", "a", "w", "a", "r", "e">>
P_video == <<"v", "i", "d", "e", "o">>
P_edited == <<"e", "d", "i", "t", "e", "d">>
P_upscaled == <<"u", "p", "s", "c", "a", "l", "e", "d">>

\* mutant: the seed is tested for truth, so seed 0 counts as no seed
unique_filename_truthy(prefix, ext, seed) ==
    IF seed # <<>> /\ seed[1] # 0
    THEN prefix \o <<"_">> \o Str(seed[1]) \o <<"_">> \o Str(now) \o <<".">> \o ext
    ELSE prefix \o <<"_">> \o Str(now) \o <<".">> \o ext

\* lines 54-62; ts = int(time.time()) is the clock; seed is <<>> for None and
\* <<n>> for the seed n: f"{prefix}_{seed}_{ts}.{ext}" or f"{prefix}_{ts}.{ext}"
unique_filename(prefix, ext, seed) ==
    IF seed # <<>>
    THEN prefix \o <<"_">> \o Str(seed[1]) \o <<"_">> \o Str(now) \o <<".">> \o ext
    ELSE prefix \o <<"_">> \o Str(now) \o <<".">> \o ext

\* f"{operation}_{stem}_{seed}.{ext}" of sketch_to_image and upscale_image
SourceFilename(operation, path, seed, ext) ==
    operation \o <<"_">> \o Stem(Basename(path)) \o <<"_">> \o Str(seed)
        \o <<".">> \o ext

S_glb == <<"g", "l", "b">>
S_mp4 == <<"m", "p", "4">>

\* the parameter mapping each generate_* function builds
ImageParams ==
    [prompt |-> args.prompt, negative_prompt |-> args.negative_prompt,
     aspect_ratio |-> args.aspect_ratio, seed |-> args.seed,
     output_format |-> args.output_format]

ThreeDParams ==
    [texture_resolution |-> args.texture_resolution,
     foreground_ratio |-> args.foreground_ratio, remesh |-> args.remesh,
     vertex_count |-> args.vertex_count, image |-> args.image_path]

\* mutant: the negative prompt is forwarded whatever the model
Sd3ParamsForwarding ==
    [prompt |-> args.prompt, negative_prompt |-> args.negative_prompt,
     aspect_ratio |-> args.aspect_ratio, seed |-> args.seed,
     output_format |-> args.output_format, model |-> args.model,
     mode |-> "text-to-image"]

Sd3Params ==
    [prompt |-> args.prompt,
     negative_prompt |-> IF args.model = "sd3" THEN args.negative_prompt ELSE <<>>,
     aspect_ratio |-> args.aspect_ratio, seed |-> args.seed,
     output_format |-> args.output_format, model |-> args.model,
     mode |-> "text-to-image"]

SketchParams ==
    [control_strength |-> args.control_strength, seed |-> args.seed,
     output_format |-> args.output_format, prompt |-> args.prompt,
     negative_prompt |-> args.negative_prompt]

UpscaleParams ==
    [prompt |-> args.prompt, negative_prompt |-> args.negative_prompt,
     seed |-> args.seed, creativity |-> args.creativity,
     output_format |-> args.output_format]

VideoParams ==
    [seed |-> args.seed, cfg_scale |-> args.cfg_scale,
     motion_bucket_id |-> args.motion_bucket_id]

SyncParams ==
    IF mode = S_img THEN ImageParams
    ELSE IF mode = S_sd3 THEN Sd3Params
    ELSE ThreeDParams

\* params.pop(key, None) followed by  if path and os.path.exists(path)
Attaches(params, key) ==
    key \in DOMAIN params /\ params[key] # <<>> /\ PathExists(params[key])

Handle(key) == IF key = "image" THEN "h_image" ELSE "h_mask"

\* the handles the helper opens for the parameter mapping
OpenedFor(params) ==
    {<<k, Handle(k)>> : k \in {x \in {"image", "mask"} : Attaches(params, x)}}

\* the files mapping after the helper's attachment step: an opened file
\* replaces an entry of the same key, and an empty mapping gets the placeholder
FilesFor(given, params) ==
    LET opened == OpenedFor(params)
        kept == {f \in given : \A o \in opened : o[1] # f[1]}
    IN IF kept \cup opened = {} THEN {<<"none", "placeholder">>}
       ELSE kept \cup opened

\* params after the two pops
FormData(params) == [k \in DOMAIN params \ {"image", "mask"} |-> params[k]]

\* for file in files.values(): if hasattr(file, "close"): file.close()
CloseAll(handles, mapping) == handles \ {f[2] : f \in mapping}

\* --------------------------------------------------- send_generation_request
\* lines 72-82: take the attachments out of params and open them
SendOpen ==
    /\ pc = "generate" /\ mode \in SyncModes
    /\ files' = FilesFor({}, SyncParams)
    /\ open' = open \cup {f[2] : f \in OpenedFor(SyncParams)}
    /\ data' = FormData(SyncParams)
    /\ pc' = "send_post"
    /\ UNCHANGED <<api_key, mode, typed, args, err, exitCode, resp, pollId,
                   posts, gets, n202, now, start, written, size, others>>

\* the message of the  except Exception  around the helper call
CallerError ==
    IF mode = S_img THEN "Error during image generation"
    ELSE IF mode = S_3d THEN "Error during 3D model generation"
    ELSE IF mode = S_sd3 THEN "Error during SD3 image generation"
    ELSE IF mode = S_upscale THEN "Error during image upscaling"
    ELSE "Error during 3D aware generation"

\* line 85: the POST is answered
SendPost ==
    /\ pc = "send_post"
    /\ \E status \in StatusCodes, finish \in FinishReasons, d \in Latencies :
         /\ resp' = [status |-> status, finish |-> finish, id |-> None]
         /\ now' = Tick(d)
    /\ posts' = posts + 1
    /\ pc' = "send_close"
    /\ UNCHANGED <<api_key, mode, typed, args, err, exitCode, data, files, open,
                   pollId, gets, n202, start, written, size, others>>

\* line 85: requests.post raises; the exception leaves the helper at once and
\* the caller's handler prints it and exits
SendPostRaises ==
    /\ pc = "send_post"
    /\ posts' = posts + 1
    /\ Fatal(CallerError)
    /\ UNCHANGED <<api_key, mode, typed, args, data, files, open, resp, pollId,
                   gets, n202, now, start, written, size, others>>

\* lines 88-96: close the files, then fail on a non-success status
SendClose ==
    /\ pc = "send_close"
    /\ open' = CloseAll(open, files)
    /\ IF ~Ok(resp.status)
       THEN Fatal("HTTP error")
       ELSE pc' = "sent" /\ UNCHANGED <<err, exitCode>>
    /\ UNCHANGED <<api_key, mode, typed, args, data, files, resp, pollId, posts,
                   gets, n202, now, start, written, size, others>>

send_generation_request == SendOpen \/ SendPost \/ SendPostRaises \/ SendClose

\* ------------------------------------------------- the callers' last steps
\* mutant: the header is compared with the wrong spelling
FilteredWrongCase(response) == response.finish = "content_filtered"

\* finish_reason == "CONTENT_FILTERED"
Filtered(response) == response.finish = "CONTENT_FILTERED"

\* mutant: the file is written before the moderation header is looked at
PersistUnchecked(checked, filename) ==
    /\ written' = Append(written, filename)
    /\ IF checked /\ Filtered(resp)
       THEN Fatal("Generation failed NSFW classifier.")
       ELSE /\ pc' = "done"
            /\ exitCode' = "0"
            /\ UNCHANGED err
    /\ UNCHANGED <<api_key, mode, typed, args, size, data, files, open, resp,
                   pollId, posts, gets, n202, now, start, others>>

\* check the moderation header where the mode does, then write the file
Persist(checked, filename) ==
    /\ IF checked /\ Filtered(resp)
       THEN /\ Fatal("Generation failed NSFW classifier.")
            /\ UNCHANGED written
       ELSE /\ written' = Append(written, filename)
            /\ pc' = "done"
            /\ exitCode' = "0"
            /\ UNCHANGED err
    /\ UNCHANGED <<api_key, mode, typed, args, size, data, files, open, resp,
                   pollId, posts, gets, n202, now, start, others>>

\* generate_image, lines 175-184
FinishImage ==
    /\ pc = "sent" /\ mode = S_img
    /\ Persist(TRUE, unique_filename(P_generated, args.output_format, <<args.seed>>))

\* generate_sd3, lines 338-348
FinishSd3 ==
    /\ pc = "sent" /\ mode = S_sd3
    /\ Persist(TRUE, unique_filename(P_sd3_generated, args.output_format,
                                     <<args.seed>>))

\* generate_3d, lines 263-267
Finish3d ==
    /\ pc = "sent" /\ mode = S_3d
    /\ Persist(FALSE, unique_filename(P_model, S_glb, <<>>))

\* generate_3d_aware, lines 427-431
Finish3dAware ==
    /\ pc = "sent" /\ mode = S_3d_aware
    /\ Persist(FALSE, unique_filename(P_model_3d_aware, S_glb, <<>>))

\* ----------------------------------------------------------- sketch_to_image
\* lines 275-297: existence check, then the POST inside  with open(...)
SketchPost ==
    /\ pc = "generate" /\ mode = S_sketch
    /\ IF ~PathExists(args.input_image)
       THEN /\ Fatal("The specified input file does not exist.")
            /\ UNCHANGED <<data, files, resp, posts, now>>
       ELSE /\ data' = SketchParams
            /\ files' = {<<"image", "h_caller">>}
            /\ posts' = posts + 1
            /\ \E status \in StatusCodes, finish \in FinishReasons, d \in Latencies :
                 /\ resp' = [status |-> status, finish |-> finish, id |-> None]
                 /\ now' = Tick(d)
            /\ pc' = "sketch_posted"
            /\ UNCHANGED <<err, exitCode>>
    /\ UNCHANGED <<api_key, mode, typed, args, open, pollId, gets, n202, start,
                   written, size, others>>

\* lines 287-297: requests.post raises inside the with block
SketchPostRaises ==
    /\ pc = "generate" /\ mode = S_sketch
    /\ PathExists(args.input_image)
    /\ data' = SketchParams
    /\ files' = {<<"image", "h_caller">>}
    /\ posts' = posts + 1
    /\ Fatal("Error during sketch-to-image generation")
    /\ UNCHANGED <<api_key, mode, typed, args, open, resp, pollId, gets, n202,
                   now, start, written, size, others>>

\* lines 299-315
SketchFinish ==
    /\ pc = "sketch_posted"
    /\ IF ~Ok(resp.status)
       THEN /\ Fatal("HTTP error")
            /\ UNCHANGED <<api_key, mode, typed, args, data, files, open, resp,
                           pollId, posts, gets, n202, now, start, written, size,
                           others>>
       ELSE Persist(TRUE, SourceFilename(P_edited, args.input_image, args.seed,
                                         args.output_format))

sketch_to_image == SketchPost \/ SketchPostRaises \/ SketchFinish

\* ------------------------------------------------------------ generate_video
\* lines 194-208: open the image and POST it
VideoPost ==
    /\ pc = "generate" /\ mode = S_video
    /\ IF ~PathExists(args.image_path)
       THEN /\ Fatal("Error reading image file")
            /\ UNCHANGED <<data, files, resp, posts, now>>
       ELSE /\ data' = VideoParams
            /\ files' = {<<"image", "h_caller">>}
            /\ posts' = posts + 1
            /\ \E status \in StatusCodes, id \in JobIds, d \in Latencies :
                 /\ resp' = [status |-> status, finish |-> "", id |-> id]
                 /\ now' = Tick(d)
            /\ pc' = "video_posted"
            /\ UNCHANGED <<err, exitCode>>
    /\ UNCHANGED <<api_key, mode, typed, args, open, pollId, gets, n202, start,
                   written, size, others>>

VideoPostRaises ==
    /\ pc = "generate" /\ mode = S_video
    /\ PathExists(args.image_path)
    /\ data' = VideoParams
    /\ files' = {<<"image", "h_caller">>}
    /\ posts' = posts + 1
    /\ Fatal("Error reading image file")
    /\ UNCHANGED <<api_key, mode, typed, args, open, resp, pollId, gets, n202,
                   now, start, written, size, others>>

\* if not generation_id
VideoIdMissing(id) == id = None \/ id = ""

\* lines 210-219: status, then the job id; response.json() is outside any try
\* (the video loop never reads the clock: start is kept only so that its
\* elapsed time can be compared with the shared loop's)
VideoCheck ==
    /\ pc = "video_posted"
    /\ IF ~Ok(resp.status)
       THEN Fatal("Video generation failed: HTTP error")
            /\ UNCHANGED <<pollId, start>>
       ELSE IF resp.id = "BadJSON"
       THEN Crash("JSONDecodeError") /\ UNCHANGED <<pollId, start>>
       ELSE IF VideoIdMissing(resp.id)
       THEN Fatal("No generation ID received.") /\ UNCHANGED <<pollId, start>>
       ELSE /\ pollId' = resp.id
            /\ start' = now
            /\ pc' = "video_get"
            /\ UNCHANGED <<err, exitCode>>
    /\ UNCHANGED <<api_key, mode, typed, args, data, files, open, resp, posts,
                   gets, n202, now, written, size, others>>

\* lines 222-225: one status GET is answered
VideoGet ==
    /\ pc = "video_get"
    /\ gets' = Count(gets)
    /\ \E status \in StatusCodes, d \in Latencies :
         /\ resp' = [status |-> status, finish |-> "", id |-> None]
         /\ n202' = IF status = 202 THEN Count(n202) ELSE n202
         /\ now' = Tick(d)
    /\ pc' = "video_step"
    /\ UNCHANGED <<api_key, mode, typed, args, err, exitCode, data, files, open,
                   pollId, posts, start, written, size, others>>

\* requests.get raises: nothing in generate_video catches it
VideoGetRaises ==
    /\ pc = "video_get"
    /\ gets' = Count(gets)
    /\ Crash("RequestException")
    /\ UNCHANGED <<api_key, mode, typed, args, data, files, open, resp, pollId,
                   posts, n202, now, start, written, size, others>>

\* what the video loop does with an answer: lines 226-238
VideoPollOutcome(status) ==
    IF status = 202 THEN "sleep"
    ELSE IF status = 200 THEN "result"
    ELSE "fatal"

VideoStep ==
    /\ pc = "video_step"
    /\ CASE VideoPollOutcome(resp.status) = "sleep" ->
              /\ now' = Tick(VideoSleep)
              /\ pc' = "video_get"
              /\ UNCHANGED <<api_key, mode, typed, args, err, exitCode, data,
                             files, open, resp, pollId, posts, gets, n202,
                             start, written, size, others>>
         [] VideoPollOutcome(resp.status) = "result" ->
              Persist(FALSE, unique_filename(P_video, S_mp4, <<args.seed>>))
         [] OTHER ->
              /\ Fatal("Video poll error")
              /\ UNCHANGED <<api_key, mode, typed, args, data, files, open,
                             resp, pollId, posts, gets, n202, now, start,
                             written, size, others>>

generate_video == VideoPost \/ VideoPostRaises \/ VideoCheck \/ VideoGet
                  \/ VideoGetRaises \/ VideoStep

\* ------------------------------------------------------------- upscale_image
\* mutant: the limit itself is rejected
TooLargeInclusive(width, height) == width * height >= MaxPixels

\* if total_pixels > 1048576
TooLarge(width, height) == width * height > MaxPixels

\* lines 356-379: existence check, pixel-area check, then  with open(...)
\* and files = {"image": image_file}
UpscaleCheck ==
    /\ pc = "generate" /\ mode = S_upscale
    /\ IF ~PathExists(args.input_image)
       THEN /\ Fatal("The specified input file does not exist.")
            /\ UNCHANGED <<size, data, files, open>>
       ELSE \E wh \in ImageSizes :
              /\ size' = wh
              /\ IF TooLarge(wh[1], wh[2])
                 THEN /\ Fatal("Image dimensions exceed the maximum allowed pixels")
                      /\ UNCHANGED <<data, files, open>>
                 ELSE /\ data' = UpscaleParams
                      /\ files' = {<<"image", "h_caller">>}
                      /\ open' = open \cup {"h_caller"}
                      /\ pc' = "async_open"
                      /\ UNCHANGED <<err, exitCode>>
    /\ UNCHANGED <<api_key, mode, typed, args, resp, pollId, posts, gets, n202,
                   now, start, written, others>>

\* --------------------------------------------- send_async_generation_request
\* lines 106-115
AsyncOpen ==
    /\ pc = "async_open"
    /\ files' = FilesFor(files, data)
    /\ open' = open \cup {f[2] : f \in OpenedFor(data)}
    /\ data' = FormData(data)
    /\ pc' = "async_post"
    /\ UNCHANGED <<api_key, mode, typed, args, err, exitCode, resp, pollId,
                   posts, gets, n202, now, start, written, size, others>>

\* line 118: the POST is answered
AsyncPost ==
    /\ pc = "async_post"
    /\ \E status \in StatusCodes, id \in JobIds, d \in Latencies :
         /\ resp' = [status |-> status, finish |-> "", id |-> id]
         /\ now' = Tick(d)
    /\ posts' = posts + 1
    /\ pc' = "async_close"
    /\ UNCHANGED <<api_key, mode, typed, args, err, exitCode, data, files, open,
                   pollId, gets, n202, start, written, size, others>>

\* an exception inside the helper leaves it at once; upscale_image's with
\* block closes its own handle and its handler prints the error and exits
UpscaleRaised ==
    /\ open' = open \ {"h_caller"}
    /\ Fatal(CallerError)

\* line 118: requests.post raises
AsyncPostRaises ==
    /\ pc = "async_post"
    /\ posts' = posts + 1
    /\ UpscaleRaised
    /\ UNCHANGED <<api_key, mode, typed, args, data, files, resp, pollId, gets,
                   n202, now, start, written, size, others>>

\* if generation_id is None
AsyncIdMissing(id) == id = None

\* lines 119-134: close the files, check the status and the job id, note the
\* time polling starts
AsyncClose ==
    /\ pc = "async_close"
    /\ IF ~Ok(resp.status)
       THEN /\ open' = CloseAll(open, files)
            /\ Fatal("HTTP error")
            /\ UNCHANGED <<pollId, start>>
       ELSE IF resp.id = "BadJSON"
       THEN /\ open' = CloseAll(open, files) \ {"h_caller"}
            /\ Fatal(CallerError)
            /\ UNCHANGED <<pollId, start>>
       ELSE IF AsyncIdMissing(resp.id)
       THEN /\ open' = CloseAll(open, files)
            /\ Fatal("Expected an 'id' in the response")
            /\ UNCHANGED <<pollId, start>>
       ELSE /\ open' = CloseAll(open, files)
            /\ pollId' = resp.id
            /\ start' = now
            /\ pc' = "poll_get"
            /\ UNCHANGED <<err, exitCode>>
    /\ UNCHANGED <<api_key, mode, typed, args, data, files, resp, posts, gets,
                   n202, now, written, size, others>>

\* lines 137-140: one status GET is answered
PollGet ==
    /\ pc = "poll_get"
    /\ gets' = Count(gets)
    /\ \E status \in StatusCodes, finish \in FinishReasons, d \in Latencies :
         /\ Final(status) \/ finish = ""
         /\ resp' = [status |-> status, finish |-> finish, id |-> None]
         /\ n202' = IF status = 202 THEN Count(n202) ELSE n202
         /\ now' = Tick(d)
    /\ pc' = "poll_check"
    /\ UNCHANGED <<api_key, mode, typed, args, err, exitCode, data, files, open,
                   pollId, posts, start, written, size, others>>

\* lines 137-140: requests.get raises
PollGetRaises ==
    /\ pc = "poll_get"
    /\ gets' = Count(gets)
    /\ UpscaleRaised
    /\ UNCHANGED <<api_key, mode, typed, args, data, files, resp, pollId, posts,
                   n202, now, start, written, size, others>>

\* the timeout parameter: what the caller passes, 500 when it passes none
timeout == IF "timeout" \in DOMAIN args THEN args.timeout ELSE Timeout

\* mutant: the timeout fires as soon as the budget is reached
TimedOutInclusive(elapsed) == elapsed >= timeout

\* if time.time() - start > timeout
TimedOut(elapsed) == elapsed > timeout

\* mutant: only 200 ends the loop, every other success status polls again
AsyncPollOutcomeOnly200(status, elapsed) ==
    IF ~Ok(status) THEN "fatal"
    ELSE IF status = 200 THEN "result"
    ELSE IF TimedOut(elapsed) THEN "timeout"
    ELSE "sleep"

\* mutant: the clock is read before the status is looked at
AsyncPollOutcomeClockFirst(status, elapsed) ==
    IF ~Ok(status) THEN "fatal"
    ELSE IF TimedOut(elapsed) THEN "timeout"
    ELSE IF status # 202 THEN "result"
    ELSE "sleep"

\* what the shared loop does with an answer: lines 141-149
AsyncPollOutcome(status, elapsed) ==
    IF ~Ok(status) THEN "fatal"
    ELSE IF status # 202 THEN "result"
    ELSE IF TimedOut(elapsed) THEN "timeout"
    ELSE "sleep"

PollCheck ==
    /\ pc = "poll_check"
    /\ CASE AsyncPollOutcome(resp.status, now - start) = "fatal" ->
              Fatal("HTTP error") /\ UNCHANGED now
         [] AsyncPollOutcome(resp.status, now - start) = "result" ->
              pc' = "polled" /\ UNCHANGED <<err, exitCode, now>>
         [] AsyncPollOutcome(resp.status, now - start) = "timeout" ->
              Fatal("Timeout") /\ UNCHANGED now
         [] OTHER ->
              /\ now' = Tick(PollInterval)
              /\ pc' = "poll_get"
              /\ UNCHANGED <<err, exitCode>>
    /\ UNCHANGED <<api_key, mode, typed, args, data, files, open, resp, pollId,
                   posts, gets, n202, start, written, size, others>>

send_async_generation_request ==
    AsyncOpen \/ AsyncPost \/ AsyncPostRaises \/ AsyncClose \/ PollGet
    \/ PollGetRaises \/ PollCheck

\* upscale_image, lines 386-402
UpscaleFinish ==
    /\ pc = "polled"
    /\ IF ~Ok(resp.status)
       THEN /\ Fatal("HTTP error")
            /\ UNCHANGED <<api_key, mode, typed, args, data, files, open, resp,
                           pollId, posts, gets, n202, now, start, written, size,
                           others>>
       ELSE Persist(TRUE, SourceFilename(P_upscaled, args.input_image, args.seed,
                                         args.output_format))

upscale_image == UpscaleCheck \/ UpscaleFinish

Next ==
    \/ Startup \/ ChooseMode \/ interactive_main \/ send_generation_request
    \/ FinishImage \/ FinishSd3 \/ Finish3d \/ Finish3dAware
    \/ sketch_to_image \/ generate_video
    \/ upscale_image \/ send_async_generation_request

Spec == Init /\ [][Next]_vars

\* ------------------------------- send_async_generation_request on its own
\* the timeouts a caller passes: negative, zero, shorter than one sleep, and
\* the default
PollTimeouts == {0 - 1, 0, 5, 500}

\* the helper is entered with the caller's file open, as upscale_image
\* enters it, and with a timeout
PollInit ==
    /\ pc = "async_open"
    /\ api_key = "sk-key"
    /\ mode = S_upscale
    /\ \E t \in PollTimeouts : args = [timeout |-> t]
    /\ data = [prompt |-> <<"p">>, output_format |-> S_jpeg]
    /\ files = {<<"image", "h_caller">>}
    /\ open = {"h_caller"}
    /\ typed = <<>> /\ size = <<0, 0>> /\ err = "" /\ exitCode = None
    /\ resp = NoResponse /\ pollId = None /\ posts = 0 /\ gets = 0
    /\ n202 = 0 /\ now = 0 /\ start = 0 /\ written = <<>>
    /\ ret = None
    /\ NoCanvas

PollNext == send_async_generation_request

PollSpec == PollInit /\ [][PollNext]_vars

\* ----------------------------------------------- unique_filename on its own
\* the arguments and clock readings unique_filename is called with
NamePrefixes == {P_generated, P_sd3_generated, P_model, P_video}
NameExts == {S_jpeg, S_png, S_glb, S_mp4}
NameSeeds == {<<>>, <<0>>, <<7>>, <<42>>, <<0 - 7>>}
NameClocks == {0, 1700000000, 1700000001}

\* nothing of a run of the asset script has happened
NoRun ==
    /\ api_key = None /\ mode = <<>> /\ typed = <<>> /\ size = <<0, 0>>
    /\ err = "" /\ exitCode = None /\ data = <<>> /\ files = {} /\ open = {}
    /\ resp = NoResponse /\ pollId = None /\ posts = 0 /\ gets = 0 /\ n202 = 0
    /\ start = 0 /\ written = <<>>
    /\ NoCanvas

NameInit ==
    /\ pc = "call"
    /\ args \in [prefix : NamePrefixes, ext : NameExts, seed : NameSeeds]
    /\ now \in NameClocks
    /\ ret = None
    /\ NoRun

\* filename = unique_filename(prefix, ext, seed)
CallUniqueFilename ==
    /\ pc = "call"
    /\ ret' = unique_filename(args.prefix, args.ext, args.seed)
    /\ pc' = "returned"
    /\ UNCHANGED <<api_key, mode, typed, args, size, err, exitCode, data, files,
                   open, resp, pollId, posts, gets, n202, now, start, written,
                   canvas>>

NameNext == CallUniqueFilename

NameSpec == NameInit /\ [][NameNext]_vars


\* ------------------------------------------------- a run after earlier runs
\* the output files earlier runs of the script left in the working directory:
\* none, or the file of a sketch run on a.png with the default seed and format
EarlierOutputs == {<<>>, <<SourceFilename(P_edited, F_a, IntVal(D_42), S_jpeg)>>}

RunsInit ==
    /\ pc = "startup"
    /\ api_key = None /\ mode = <<>> /\ typed = <<>> /\ args = <<>>
    /\ size = <<0, 0>> /\ err = "" /\ exitCode = None /\ data = <<>>
    /\ files = {} /\ open = {} /\ resp = NoResponse /\ pollId = None
    /\ posts = 0 /\ gets = 0 /\ n202 = 0 /\ now = 0 /\ start = 0
    /\ written \in EarlierOutputs
    /\ ret = None
    /\ NoCanvas

RunsSpec == RunsInit /\ [][Next]_vars

\* ---------------------------------------------- numbered_list.parse_list
\* the longest text drawn character by character
MaxText == 6

\* the characters of those texts: a digit, the dot, the blank, a letter and
\* the line break
TextChars == {"1", ".", " ", "a", "\n"}

L_define == <<"1", ".", "2", ".", " ", "D", "e", "f", "i", "n", "e", " ", "r", "e", "q", "u", "i", "r", "e", "m", "e", "n", "t", "s">>
L_misc == <<"M", "i", "s", "c", "e", "l", "l", "a", "n", "e", "o", "u", "s", " ", "n", "o", "t", "e", "s">>

\* the texts the model answers with: every text of up to MaxText characters,
\* and the two lines above as one text
Texts ==
    UNION {[1..n -> TextChars] : n \in 0..MaxText}
        \cup {L_define \o <<"\n">> \o L_misc}

\* position of the first line break at or after i, 0 if none
RECURSIVE BreakPos(_, _)
BreakPos(s, i) ==
    IF i > Len(s) THEN 0 ELSE IF s[i] = "\n" THEN i ELSE BreakPos(s, i + 1)

\* str.splitlines()
RECURSIVE splitlines(_)
splitlines(s) ==
    IF s = <<>> THEN <<>>
    ELSE LET n == BreakPos(s, 1) IN
         IF n = 0 THEN <<s>>
         ELSE <<SubSeq(s, 1, n - 1)>> \o splitlines(SubSeq(s, n + 1, Len(s)))

\* mutant: the line is split at the last ". ", as rsplit would
LastSepPos(s, i) ==
    LET at == {k \in i..(Len(s) - 1) : s[k] = "." /\ s[k + 1] = " "} IN
    IF at = {} THEN 0 ELSE CHOOSE k \in at : \A j \in at : j <= k

\* position of the first ". " at or after i, 0 if none:  ". " in s, and
\* where s.split(". ", 1) cuts
RECURSIVE SepPos(_, _)
SepPos(s, i) ==
    IF i >= Len(s) THEN 0
    ELSE IF s[i] = "." /\ s[i + 1] = " " THEN i ELSE SepPos(s, i + 1)

ListItem(id, title) == [id |-> id, title |-> title]

\* mutant: a line is skipped only when it is empty before it is trimmed
RECURSIVE ParseLinesSkipEmptyOnly(_)
ParseLinesSkipEmptyOnly(lines) ==
    IF lines = <<>> THEN <<>>
    ELSE LET stripped == Strip(Head(lines))
             cut == SepPos(stripped, 1)
             rest == ParseLinesSkipEmptyOnly(Tail(lines))
         IN  IF Head(lines) = <<>> THEN rest
             ELSE IF cut # 0
             THEN <<ListItem(Strip(SubSeq(stripped, 1, cut - 1)),
                             Strip(SubSeq(stripped, cut + 2, Len(stripped))))>>
                      \o rest
             ELSE <<ListItem(<<>>, stripped)>> \o rest

\* one pass of the loop of lines 25-39 for each line
RECURSIVE ParseLines(_)
ParseLines(lines) ==
    IF lines = <<>> THEN <<>>
    ELSE LET stripped == Strip(Head(lines))
             cut == SepPos(stripped, 1)
             rest == ParseLines(Tail(lines))
         IN  IF stripped = <<>> THEN rest
             ELSE IF cut # 0
             THEN <<ListItem(Strip(SubSeq(stripped, 1, cut - 1)),
                             Strip(SubSeq(stripped, cut + 2, Len(stripped))))>>
                      \o rest
             ELSE <<ListItem(<<>>, stripped)>> \o rest

parse_list(output) == ParseLines(splitlines(output))

ParseInit ==
    /\ pc = "call"
    /\ args \in [output : Texts]
    /\ now = 0
    /\ ret = None
    /\ NoRun

\* items = parse_list(response_content)
CallParseList ==
    /\ pc = "call"
    /\ ret' = parse_list(args.output)
    /\ pc' = "returned"
    /\ UNCHANGED <<api_key, mode, typed, args, size, err, exitCode, data, files,
                   open, resp, pollId, posts, gets, n202, now, start, written,
                   canvas>>

ParseNext == CallParseList

ParseSpec == ParseInit /\ [][ParseNext]_vars

\* --------------------------------- generate_3d, generate_3d_aware on their own
\* generate_3d(api_key, image_path) or generate_3d_aware(api_key, image_path)
\* is entered with the defaults of its signature and a path that names a
\* file or not: neither function checks the path, and a file that was there
\* when interactive_main asked for it can be gone when the helper looks
CallInit ==
    /\ pc = "generate"
    /\ api_key = "sk-key"
    /\ mode \in {S_3d, S_3d_aware}
    /\ \E path \in {F_a, F_b} :
         args = [image_path |-> path, texture_resolution |-> S_1024,
                 foreground_ratio |-> FloatVal(D_0_85), remesh |-> S_triangle,
                 vertex_count |-> IntVal(D_20000)]
    /\ typed = <<>> /\ size = <<0, 0>> /\ err = "" /\ exitCode = None
    /\ data = <<>> /\ files = {} /\ open = {} /\ resp = NoResponse
    /\ pollId = None /\ posts = 0 /\ gets = 0 /\ n202 = 0 /\ now = 0
    /\ start = 0 /\ written = <<>>
    /\ ret = None
    /\ NoCanvas

CallNext == send_generation_request \/ Finish3d \/ Finish3dAware

CallSpec == CallInit /\ [][CallNext]_vars

\* ============================================================ text pipeline
\* the state of the asset script, which the text pipeline never touches
asset ==
    <<api_key, mode, args, size, data, files, open, resp, pollId, gets, n202, now,
      start>>

\* what is typed at "Enter your prompt for the plan: "
PlanPrompts == {<<>>, <<" ">>, <<"p">>}

\* what the chat model answers when asked for a plan
PlanReplies == {<<"G", " ", "o">>, <<"D", ":", "e", "\n", "x">>}

\* the most lines an outline answer has
MaxItems == 2

\* the lines of an outline answer: ids of one to five levels, and a line
\* without numbering
OutlineLines ==
    {<<"1", ".", " ", "a">>,
     <<"1", ".", "1", ".", " ", "b">>,
     <<"1", ".", "1", ".", "1", ".", " ", "c">>,
     <<"1", ".", "1", ".", "1", ".", "1", ".", " ", "d">>,
     <<"1", ".", "1", ".", "1", ".", "1", ".", "1", ".", " ", "e">>,
     <<"f">>}

\* "\n".join(lines)
RECURSIVE JoinLines(_)
JoinLines(lines) ==
    IF lines = <<>> THEN <<>>
    ELSE IF Len(lines) = 1 THEN lines[1]
    ELSE lines[1] \o <<"\n">> \o JoinLines(Tail(lines))

\* what the chat model answers when asked for an outline
OutlineTexts ==
    {JoinLines(lines) : lines \in UNION {[1..n -> OutlineLines] : n \in 0..MaxItems}}

\* what the chat model answers when asked for an explanation or an image
\* prompt: nothing, or a text with a leading blank
Replies == {<<>>, <<" ", "x">>}

T_no_explanation ==
    <<"N", "o", " ", "e", "x", "p", "l", "a", "n", "a", "t", "i", "o", "n",
      " ", "g", "e", "n", "e", "r", "a", "t", "e", "d", ".">>
T_no_image_prompt ==
    <<"N", "o", " ", "i", "m", "a", "g", "e", " ", "p", "r", "o", "m", "p",
      "t", " ", "g", "e", "n", "e", "r", "a", "t", "e", "d", ".">>

\* data_img_p.py lines 37 and 56:
\* response.content.strip() if response.content else "No ... generated."
ContentOr(content, fallback) == IF content # <<>> THEN Strip(content) ELSE fallback

\* plan.py line 22: plan_text.split('\n')[0]
FirstLine(text) ==
    IF BreakPos(text, 1) = 0 THEN text ELSE SubSeq(text, 1, BreakPos(text, 1) - 1)

\* text_canvas.py line 23, one character at a time: the characters Windows
\* forbids are dropped, a blank becomes "_", "&" becomes "and", then lower()
SanitizeChar(c) ==
    IF c \in {"<", ">", ":", "\"", "/", "\\", "|", "?", "*"} THEN <<>>
    ELSE IF c = " " THEN <<"_">>
    ELSE IF c = "&" THEN <<"a", "n", "d">>
    ELSE <<LowerChar(c)>>

RECURSIVE Sanitize(_)
Sanitize(name) ==
    IF name = <<>> THEN <<>> ELSE SanitizeChar(Head(name)) \o Sanitize(Tail(name))

T_processed_json ==
    <<"_", "p", "r", "o", "c", "e", "s", "s", "e", "d", ".", "j", "s", "o",
      "n">>
T_txt == <<".", "t", "x", "t">>

\* one chat-completion call, as the log keeps it
Call(fn, title, given) == [fn |-> fn, title |-> title, explanation |-> given]

\* lines 14-17: the prompt for the plan; without one, main prints the error
\* and returns, and the interpreter ends with status 0
TcPrompt ==
    /\ pc = "tc_prompt"
    /\ \E text \in PlanPrompts :
         /\ typed' = [user_prompt |-> Strip(text)]
         /\ IF Strip(text) = <<>>
            THEN /\ pc' = "returned"
                 /\ err' = "A user prompt is required."
                 /\ exitCode' = "0"
            ELSE /\ pc' = "tc_plan"
                 /\ UNCHANGED <<err, exitCode>>
    /\ UNCHANGED <<posts, written, ret, canvas, asset>>

\* lines 20-24: the plan, the project name and the name of the JSON file
TcPlan ==
    /\ pc = "tc_plan"
    /\ posts' = posts + 1
    /\ calls' = Append(calls, Call("plan", <<>>, <<>>))
    /\ \E reply \in PlanReplies :
         /\ plan_text' = Strip(reply)
         /\ output_file' = Sanitize(FirstLine(Strip(reply))) \o T_processed_json
    /\ pc' = "tc_outline"
    /\ UNCHANGED <<typed, err, exitCode, written, ret, items, explanation,
                   processed_list, txt_output_lines, asset>>

\* a chat-completion call raises: nothing in main catches it
TcCallRaises ==
    /\ pc \in {"tc_plan", "tc_outline", "tc_explain", "tc_image"}
    /\ posts' = posts + 1
    /\ Crash("APIError")
    /\ UNCHANGED <<typed, written, ret, canvas, asset>>

\* line 30: generate_and_parse_list
TcOutline ==
    /\ pc = "tc_outline"
    /\ posts' = posts + 1
    /\ calls' = Append(calls, Call("outline", <<>>, <<>>))
    /\ \E text \in OutlineTexts :
         /\ items' = parse_list(text)
         /\ pc' = IF parse_list(text) = <<>> THEN "tc_save" ELSE "tc_explain"
    /\ UNCHANGED <<typed, err, exitCode, written, ret, plan_text, output_file,
                   explanation, processed_list, txt_output_lines, asset>>

\* mutant: the outline is walked from its end
ItemFromEnd == items[Len(items) - Len(processed_list)]

\* the item the loop is at: enumerate(numbered_list_items, start=1)
Item == items[Len(processed_list) + 1]

\* explanation = generate_explanation(title, ...): text_canvas.py line 40,
\* data_img_p.py line 92
Explain(here, there, title) ==
    /\ pc = here
    /\ posts' = posts + 1
    /\ calls' = Append(calls, Call("explanation", title, <<>>))
    /\ \E reply \in Replies : explanation' = ContentOr(reply, T_no_explanation)
    /\ pc' = there
    /\ UNCHANGED <<typed, err, exitCode, written, ret, plan_text, output_file,
                   items, processed_list, txt_output_lines, asset>>

\* img_prompt = generate_image_prompt(title, explanation, ...) and the append:
\* text_canvas.py lines 43-51, data_img_p.py lines 95-104
ImagePrompt(here, again, after, id, title) ==
    /\ pc = here
    /\ posts' = posts + 1
    /\ calls' = Append(calls, Call("image_prompt", title, explanation))
    /\ \E reply \in Replies :
         processed_list' =
             Append(processed_list,
                    [id |-> id, title |-> title, explanation |-> explanation,
                     img_prompt |-> ContentOr(reply, T_no_image_prompt)])
    /\ pc' = IF Len(processed_list) + 1 < Len(items) THEN again ELSE after
    /\ UNCHANGED <<typed, err, exitCode, written, ret, plan_text, output_file,
                   items, explanation, txt_output_lines, asset>>

\* text_canvas.py lines 33-40
TcExplain == Explain("tc_explain", "tc_image", Item.title)

\* text_canvas.py lines 43-51
TcImagePrompt == ImagePrompt("tc_image", "tc_explain", "tc_save", Item.id, Item.title)

\* the number of c in s: str.count
RECURSIVE CountChar(_, _)
CountChar(s, c) ==
    IF s = <<>> THEN 0
    ELSE (IF Head(s) = c THEN 1 ELSE 0) + CountChar(Tail(s), c)

\* mutant: the depth is the number of levels of the id
get_depth_levels(id_str) == IF id_str = <<>> THEN 0 ELSE CountChar(id_str, ".") + 1

\* lines 77-78
get_depth(id_str) == CountChar(id_str, ".")

\* '-' * n
Dashes(n) == [i \in 1..n |-> "-"]

\* lines 80-88
get_dash(depth) ==
    IF depth = 0 THEN Dashes(40)
    ELSE IF depth = 1 THEN Dashes(20)
    ELSE IF depth = 2 THEN Dashes(10)
    ELSE Dashes(5)

T_PLAN == <<"P", "L", "A", "N">>
T_Explanation ==
    <<"E", "x", "p", "l", "a", "n", "a", "t", "i", "o", "n", ":", " ">>
T_Image_Prompt ==
    <<"I", "m", "a", "g", "e", " ", "P", "r", "o", "m", "p", "t", ":", " ">>

\* lines 91-116: the five lines of the report for one item
ItemLines(item) ==
    <<get_dash(get_depth(item.id)),
      item.id \o <<".", " ">> \o item.title,
      T_Explanation \o item.explanation,
      T_Image_Prompt \o item.img_prompt,
      <<>>>>

RECURSIVE ReportLines(_)
ReportLines(list) ==
    IF list = <<>> THEN <<>> ELSE ItemLines(Head(list)) \o ReportLines(Tail(list))

\* lines 54-123: write the JSON file, build the report, write the text file
\* named output_file.rsplit(".", 1)[0] + ".txt"
TcSaveAndReport ==
    /\ pc = "tc_save"
    /\ txt_output_lines' = <<T_PLAN, plan_text, <<>>>> \o ReportLines(processed_list)
    /\ written' = written \o
         <<output_file,
           SubSeq(output_file, 1, LastPos(output_file, ".", Len(output_file)) - 1)
               \o T_txt>>
    /\ pc' = "done"
    /\ exitCode' = "0"
    /\ UNCHANGED <<typed, err, posts, ret, plan_text, output_file, items,
                   explanation, processed_list, calls, asset>>

text_canvas ==
    TcPrompt \/ TcPlan \/ TcCallRaises \/ TcOutline \/ TcExplain \/ TcImagePrompt
    \/ TcSaveAndReport

\* ------------------------------------------------ data_img_p.process_json
\* the JSON files of the working directory, and what is typed at
\* "Enter the path to the input JSON file: "
F_json == <<"d", "/", "o", ".", "j", "s", "o", "n">>
F_missing == <<"n", ".", "j", "s", "o", "n">>
JsonFiles == {F_json}
JsonPaths == {<<>>, F_json, F_missing}

\* what such a file holds: an empty object, the file plan.py writes (no
\* numbered_list), or a file numbered_list.py writes
JsonContents ==
    {[kind |-> "empty"], [kind |-> "plan", plan |-> <<"x">>]}
        \cup {[kind |-> "outline", plan |-> <<"x">>, numbered_list |-> parse_list(text)] :
                 text \in OutlineTexts}

\* dict.get(key, default)
Get(dict, key, default) == IF key \in DOMAIN dict THEN dict[key] ELSE default

T_Untitled == <<"U", "n", "t", "i", "t", "l", "e", "d">>
T_No_plan ==
    <<"N", "o", " ", "p", "l", "a", "n", " ", "p", "r", "o", "v", "i", "d",
      "e", "d", ".">>
T_processed_ ==
    <<"p", "r", "o", "c", "e", "s", "s", "e", "d", "_">>

\* lines 129-134 and 61-81: the path must exist; an empty object or a
\* missing or empty numbered_list makes process_json return
PjStart ==
    /\ pc = "pj_prompt"
    /\ \E text \in JsonPaths, content \in JsonContents :
         LET file == [k \in DOMAIN content \ {"kind"} |-> content[k]] IN
         /\ typed' = [input_file |-> Strip(text)]
         /\ IF Strip(text) \notin JsonFiles
            THEN /\ Fatal("The file does not exist.")
                 /\ UNCHANGED <<plan_text, output_file, items>>
            ELSE IF DOMAIN file = {}
            THEN /\ pc' = "returned"
                 /\ err' = "Input file is empty. Exiting."
                 /\ exitCode' = "0"
                 /\ UNCHANGED <<plan_text, output_file, items>>
            ELSE /\ output_file' = T_processed_ \o Basename(Strip(text))
                 /\ plan_text' = Get(file, "plan", T_No_plan)
                 /\ items' = Get(file, "numbered_list", <<>>)
                 /\ IF Get(file, "numbered_list", <<>>) = <<>>
                    THEN /\ pc' = "returned"
                         /\ err' = "No numbered list found in the input file. Exiting."
                         /\ exitCode' = "0"
                    ELSE /\ pc' = "pj_explain"
                         /\ UNCHANGED <<err, exitCode>>
    /\ UNCHANGED <<posts, written, ret, explanation, processed_list, calls,
                   txt_output_lines, asset>>

\* lines 61-62: json.load raises on a file that is not JSON; nothing catches it
PjLoadRaises ==
    /\ pc = "pj_prompt"
    /\ \E text \in JsonPaths :
         /\ Strip(text) \in JsonFiles
         /\ typed' = [input_file |-> Strip(text)]
    /\ Crash("JSONDecodeError")
    /\ UNCHANGED <<posts, written, ret, canvas, asset>>

\* a chat-completion call raises: nothing catches it
PjCallRaises ==
    /\ pc \in {"pj_explain", "pj_image", "pj_tail"}
    /\ posts' = posts + 1
    /\ Crash("APIError")
    /\ UNCHANGED <<typed, written, ret, canvas, asset>>

\* lines 85-92
PjExplain == Explain("pj_explain", "pj_image", Get(Item, "title", T_Untitled))

\* lines 95-104
PjImagePrompt ==
    ImagePrompt("pj_image", "pj_explain", "pj_save", Get(Item, "id", <<>>),
                Get(Item, "title", T_Untitled))

\* lines 107-117
PjSave ==
    /\ pc = "pj_save"
    /\ written' = Append(written, output_file)
    /\ pc' = "pj_tail"
    /\ UNCHANGED <<typed, err, exitCode, posts, ret, canvas, asset>>

\* lines 119-125: one more completion call once the file is saved
PjTail ==
    /\ pc = "pj_tail"
    /\ posts' = posts + 1
    /\ calls' = Append(calls, Call("completion", <<>>, <<>>))
    /\ pc' = "done"
    /\ exitCode' = "0"
    /\ UNCHANGED <<typed, err, written, ret, plan_text, output_file, items,
                   explanation, processed_list, txt_output_lines, asset>>

process_json ==
    PjStart \/ PjLoadRaises \/ PjCallRaises \/ PjExplain \/ PjImagePrompt
    \/ PjSave \/ PjTail

\* either script of the text pipeline is started
TextInit ==
    /\ pc \in {"tc_prompt", "pj_prompt"}
    /\ args = <<>>
    /\ now = 0
    /\ ret = None
    /\ NoRun

TextNext == text_canvas \/ process_json

TextSpec == TextInit /\ [][TextNext]_vars

\* ================================================================== claims
Running == pc \notin {"startup", "choose_mode", "dispatch"}
Ended == exitCode # None
PathModes == {S_video, S_3d, S_sketch, S_upscale, S_3d_aware}
PromptModes == {S_img, S_sketch, S_sd3, S_upscale}
ImageModes == {S_img, S_sketch, S_sd3, S_upscale}

\* a required answer of the chosen mode is missing: an empty prompt, or a
\* source path that is empty or names no file
RequiredOmitted ==
    \/ mode \in PromptModes /\ Strip(typed.prompt) = <<>>
    \/ mode \in PathModes
       /\ (Strip(typed.path) = <<>> \/ Strip(typed.path) \notin ExistingFiles)

\* C1: in each of the seven modes, a run whose required input is omitted has
\* ended with exit status 1 and has issued no HTTP request.
C1_OmissionRejectedBeforeNetwork ==
    (Running /\ mode \in Modes /\ RequiredOmitted) =>
        (pc = "exited" /\ exitCode = "1" /\ posts = 0 /\ gets = 0)

C1_Witness ==
    /\ pc = "exited" /\ mode = S_sketch
    /\ Strip(typed.path) \in ExistingFiles /\ typed.prompt = <<" ">>
    /\ posts = 0 /\ gets = 0

\* the sleeps the shared loop has taken: one after every answered GET but the
\* one being examined
Sleeps == IF pc = "poll_get" THEN gets ELSE gets - 1

\* the shared poller has only seen 202 answers and no request took any time
AllProcessingInstant ==
    /\ mode = S_upscale /\ gets > 0 /\ n202 = gets
    /\ now - start = PollInterval * Sleeps

\* C2 (as amended): with poll interval 10 s and timeout 500 s, when every status
\* GET answers 202 and requests take no time, the poller halts with a timeout
\* on the 52nd consecutive 202 response (elapsed 510 s) and never issues a
\* 53rd poll; the 51st 202, at elapsed exactly 500 s, is followed by a sleep.
C2_TimeoutOn52ndPoll ==
    AllProcessingInstant =>
        /\ gets <= 52
        /\ (gets = 52 => pc # "poll_get")
        /\ (err = "Timeout" <=> (gets = 52 /\ pc = "exited"))

C2_Witness ==
    /\ AllProcessingInstant /\ pc = "exited" /\ err = "Timeout"
    /\ gets = 52 /\ now - start = 510

\* C2 as stated: the poller halts on the 51st consecutive 202 response and
\* never issues a 52nd poll.
C2_TimeoutOn51stPoll ==
    AllProcessingInstant =>
        /\ gets <= 51
        /\ (err = "Timeout" => gets = 51)

\* the shared poller has examined at least one answer
Polled == mode = S_upscale /\ gets > 0 /\ pc \in {"poll_get", "polled", "exited", "done"}
          /\ err # CallerError

\* C3 (as amended): the shared poller issues another GET only after a 202
\* answer examined before the timeout elapsed, ends fatally on the first
\* non-success status, and returns the first success response that is not
\* 202; the number of GETs is the number of 202 answers plus one when it ends
\* in either of those ways, and equals the number of 202 answers when it ends
\* by timeout.
C3_PollerFollowsStatus ==
    Polled =>
        /\ pc = "poll_get" =>
             /\ resp.status = 202 /\ gets = n202
             /\ now - PollInterval - start <= Timeout
        /\ pc \in {"polled", "done"} =>
             /\ Ok(resp.status) /\ resp.status # 202 /\ gets = n202 + 1
        /\ pc = "exited" =>
             \/ err = "Timeout" /\ resp.status = 202 /\ gets = n202
                /\ now - start > Timeout
             \/ err = "HTTP error" /\ ~Ok(resp.status) /\ gets = n202 + 1
             \/ err = "Generation failed NSFW classifier."
                /\ Ok(resp.status) /\ resp.status # 202 /\ gets = n202 + 1

C3_Witness ==
    /\ Polled /\ pc = "polled" /\ n202 = 3 /\ gets = 4 /\ resp.status = 204

\* C3 as stated: whenever the shared poller has ended, the number of GETs is
\* the number of 202 answers plus one.
C3_GetsAre202sPlusOne ==
    (Polled /\ pc # "poll_get") => gets = n202 + 1

\* C4: in image, sketch, sd3 and upscale mode, a final response carrying
\* finish-reason CONTENT_FILTERED leaves no output file, and the run ends
\* with exit status 1, whatever the HTTP status.
C4_ModerationHalts ==
    (mode \in ImageModes /\ resp.finish = "CONTENT_FILTERED") =>
        /\ written = <<>>
        /\ pc # "done"
        /\ Ended => (pc = "exited" /\ exitCode = "1")

C4_Witness ==
    /\ mode = S_upscale /\ pc = "exited" /\ resp.status = 200
    /\ resp.finish = "CONTENT_FILTERED"
    /\ err = "Generation failed NSFW classifier." /\ written = <<>>

\* C5: upscale_image ends fatally with no HTTP request when width*height
\* exceeds 1,048,576, and goes on to the submission POST otherwise, the
\* boundary value included.
C5_PixelAreaLimit ==
    (mode = S_upscale /\ size # <<0, 0>>) =>
        IF size[1] * size[2] > 1048576
        THEN pc = "exited" /\ posts = 0 /\ gets = 0
        ELSE pc \in {"async_open", "async_post"} \/ posts = 1

C5_Witness ==
    /\ mode = S_upscale /\ size = <<1024, 1024>> /\ posts = 1 /\ pc = "async_close"

\* the transport helper is between opening the attachments and closing them
InsideHelper == pc \in {"send_post", "send_close", "async_post", "async_close"}
HelperHandles == {"h_image", "h_mask"}

\* C6: once send_generation_request or send_async_generation_request is left,
\* on whatever path, no attachment handle the helper opened is still open.
C6_HandlesClosedOnExit ==
    ~InsideHelper => open \cap HelperHandles = {}

\* C7: no status GET is issued for a job id that is missing or empty.
C7_NoPollWithEmptyId ==
    gets > 0 => (pollId # None /\ pollId # "")

\* the three ways a poll loop can go on after an answer
Verdict(outcome) == IF outcome \in {"fatal", "timeout"} THEN "fatal" ELSE outcome

\* C8: whenever either poll loop examines an answer, the video loop and the
\* shared loop decide alike on that status code and that clock: poll again,
\* finish with the result, or fatal error.
C8_LoopsEquivalent ==
    pc \in {"poll_check", "video_step"} =>
        Verdict(AsyncPollOutcome(resp.status, now - start))
            = Verdict(VideoPollOutcome(resp.status))

\* C9: neither poll loop issues another GET once a 202 answer was examined
\* with more than the timeout elapsed since polling began, so a service that
\* keeps answering 202 is polled a bounded number of times.
C9_PollLoopsTimeOut ==
    (pc \in {"poll_get", "video_get"} /\ gets > 0) =>
        now - PollInterval - start <= Timeout

\* C10: an invocation issues at most one submission POST, and once it has
\* ended, fatally or not, nothing more happens: no further HTTP request.
C10_NoRetry ==
    /\ posts <= 1
    /\ Ended => ~ENABLED Next

C10_Witness ==
    /\ mode = S_upscale /\ pc = "exited" /\ err = "HTTP error"
    /\ posts = 1 /\ gets = 3

\* C11: in every mode a run that ended successfully has written exactly one
\* output file and a run that ended in a fatal error has written none; a file
\* is written only by a successful end, and once an HTTP answer carries a
\* non-success status (on the POST or on a poll) no file is written and no
\* further request is issued.
C11_OneFileOnSuccessNoneOnFatal ==
    /\ [](/\ exitCode = "0" => Len(written) = 1
          /\ exitCode = "1" => written = <<>>
          /\ written # <<>> => (pc = "done" /\ exitCode = "0" /\ Ok(resp.status)))
    /\ [][~Ok(resp.status) =>
            (written' = <<>> /\ posts' = posts /\ gets' = gets
             /\ (pc' = "exited" => exitCode' = "1"))]_vars

C11_Witness ==
    /\ mode = S_upscale /\ pc = "done" /\ exitCode = "0"
    /\ Len(written) = 1 /\ gets = 2

\* the text of s before and after the last occurrence of c
BeforeLast(s, c) == SubSeq(s, 1, LastPos(s, c, Len(s)) - 1)
AfterLast(s, c) == SubSeq(s, LastPos(s, c, Len(s)) + 1, Len(s))

\* s is the decimal numeral of n, without leading zeros
Numeral(s, n) ==
    /\ s # <<>> /\ AllDigits(s) /\ DigitsVal(s) = n
    /\ (Len(s) > 1 => s[1] # "0")

E_model_glb == <<"m", "o", "d", "e", "l", "_", "1", "7", "0", "0", "0", "0", "0", "0", "0", "0", ".", "g", "l", "b">>
E_generated_7_jpeg ==
    <<"g", "e", "n", "e", "r", "a", "t", "e", "d", "_", "7", "_", "1", "7", "0", "0", "0", "0", "0", "0", "0", "0", ".", "j", "p", "e", "g">>
E_generated_0_jpeg ==
    <<"g", "e", "n", "e", "r", "a", "t", "e", "d", "_", "0", "_", "1", "7", "0", "0", "0", "0", "0", "0", "0", "0", ".", "j", "p", "e", "g">>

\* C12: the name unique_filename returns is made of its arguments and the
\* clock's whole second only: read from the right it is the extension after
\* the last ".", the timestamp after the last "_", then, for every given seed
\* (seed 0 included), the seed after the prefix, and the prefix alone when no
\* seed is given; at 1700000000 ("model", "glb") gives model_1700000000.glb
\* and ("generated", "jpeg", 7) gives generated_7_1700000000.jpeg.
C12_UniqueFilenameFormat ==
    pc = "returned" =>
        LET body == BeforeLast(ret, ".")
            front == BeforeLast(body, "_")
        IN  /\ AfterLast(ret, ".") = args.ext
            /\ Numeral(AfterLast(body, "_"), now)
            /\ IF args.seed = <<>>
               THEN front = args.prefix
               ELSE /\ BeforeLast(front, "_") = args.prefix
                    /\ IntOk(AfterLast(front, "_"))
                    /\ IntVal(AfterLast(front, "_")) = args.seed[1]
            /\ (args = [prefix |-> P_model, ext |-> S_glb, seed |-> <<>>]
                /\ now = 1700000000) => ret = E_model_glb
            /\ (args = [prefix |-> P_generated, ext |-> S_jpeg, seed |-> <<7>>]
                /\ now = 1700000000) => ret = E_generated_7_jpeg

C12_Witness ==
    /\ pc = "returned" /\ now = 1700000000
    /\ args = [prefix |-> P_generated, ext |-> S_jpeg, seed |-> <<0>>]
    /\ ret = E_generated_0_jpeg

\* C13: over a sequence of successful generations no two results are written
\* under the same filename, so no earlier output is overwritten.
C13_NoOverwrite ==
    \A i, j \in 1..Len(written) : i # j => written[i] # written[j]

\* the lines of the parsed text that are not blank, in order
NonBlankLines == SelectSeq(splitlines(args.output), LAMBDA l : Strip(l) # <<>>)

\* the places where the separator ". " stands in a line
SepPlaces(l) == {k \in 1..(Len(l) - 1) : l[k] = "." /\ l[k + 1] = " "}
FirstPlace(l) == CHOOSE k \in SepPlaces(l) : \A j \in SepPlaces(l) : k <= j

\* the item the claim gives a line, given the text in which the separator is
\* looked for
ItemAt(l, text) ==
    IF SepPlaces(text) # {}
    THEN [id |-> Strip(SubSeq(text, 1, FirstPlace(text) - 1)),
          title |-> Strip(SubSeq(text, FirstPlace(text) + 2, Len(text)))]
    ELSE [id |-> <<>>, title |-> Strip(l)]

\* C14 (as amended): parse_list gives one item per non-blank line, in order;
\* a line whose trimmed text contains ". " becomes the item whose id is the
\* trimmed text before the first ". " and whose title is the trimmed text
\* after it, every other non-blank line the item with id "" and the trimmed
\* line as title; "1.2. Define requirements" gives id "1.2" and title
\* "Define requirements".
C14_ParseListOnTrimmedLines ==
    pc = "returned" =>
        /\ Len(ret) = Len(NonBlankLines)
        /\ \A k \in 1..Len(ret) :
              ret[k] = ItemAt(NonBlankLines[k], Strip(NonBlankLines[k]))
        /\ args.output = L_define \o <<"\n">> \o L_misc =>
              ret = <<[id |-> <<"1", ".", "2">>,
                       title |-> <<"D", "e", "f", "i", "n", "e", " ", "r", "e", "q", "u", "i", "r", "e", "m", "e", "n", "t", "s">>],
                      [id |-> <<>>, title |-> L_misc]>>

C14_Witness ==
    /\ pc = "returned"
    /\ args.output = <<"1", ".", " ", "a", "\n", ".">>
    /\ ret = <<[id |-> <<"1">>, title |-> <<"a">>], [id |-> <<>>, title |-> <<".">>]>>

\* C14 (as stated): the separator is looked for in the line as it stands, so
\* a line that ends in ". " and blanks counts as containing it.
C14_ParseListOnRawLines ==
    pc = "returned" =>
        /\ Len(ret) = Len(NonBlankLines)
        /\ \A k \in 1..Len(ret) :
              ret[k] = ItemAt(NonBlankLines[k], NonBlankLines[k])

\* the number of dots in an id
Dots(id) == Cardinality({i \in DOMAIN id : id[i] = "."})

\* the separator line the report holds for the k-th item: three lines of
\* heading come first, and each item takes five lines
SeparatorOf(k) == txt_output_lines[3 + 5 * (k - 1) + 1]

\* C15: in the text report the separator line of every item is made of
\* dashes only, and their number follows from the number of dots in the
\* item's id alone: 40 for no dot (the empty id included), 20 for one dot,
\* 10 for two, 5 for three or more.
C15_DashesByDots ==
    (pc = "done" /\ txt_output_lines # <<>>) =>
        /\ Len(txt_output_lines) = 3 + 5 * Len(processed_list)
        /\ \A k \in 1..Len(processed_list) :
              /\ \A i \in DOMAIN SeparatorOf(k) : SeparatorOf(k)[i] = "-"
              /\ Len(SeparatorOf(k)) =
                    CASE Dots(processed_list[k].id) = 0 -> 40
                      [] Dots(processed_list[k].id) = 1 -> 20
                      [] Dots(processed_list[k].id) = 2 -> 10
                      [] OTHER -> 5

C15_Witness ==
    /\ pc = "done" /\ Len(processed_list) = 2
    /\ processed_list[1].id = <<>> /\ Len(SeparatorOf(1)) = 40
    /\ Dots(processed_list[2].id) = 4 /\ Len(SeparatorOf(2)) = 5

\* C16: when the API key is absent or empty in the environment, the script
\* ends at startup with exit status 1: no prompt has been answered, no HTTP
\* request has been issued, and nothing more happens.
C16_NoKeyEndsAtStartup ==
    (pc # "startup" /\ (api_key = None \/ api_key = "")) =>
        /\ pc = "exited" /\ exitCode = "1"
        /\ mode = <<>> /\ typed = <<>>
        /\ posts = 0 /\ gets = 0
        /\ ~ENABLED Next

C16_Witness ==
    /\ pc = "exited" /\ api_key = "" /\ exitCode = "1"
    /\ err = "'STABILITY_API_KEY' not found." /\ posts = 0

\* the model choices the sd3 prompt lists
ListedChoices == {<<"1">>, <<"2">>, <<"3">>}

\* C17: a run in which the mode name is not one of the seven, or in which
\* the sd3 model choice is none of the listed options, has ended with exit
\* status 1 and has made no API call.
C17_InvalidInputRejected ==
    (Running /\ (\/ mode \notin Modes
                 \/ /\ mode = S_sd3
                    /\ Typed(typed.model_choice, <<"1">>) \notin ListedChoices)) =>
        (pc = "exited" /\ exitCode = "1" /\ posts = 0 /\ gets = 0)

\* the answer to a numeric prompt (the default when left empty) does not
\* parse as an integer, or as a float
NotInt(text, default) == ~IntOk(Typed(text, default))
NotFloat(text, default) == ~FloatOk(Typed(text, default))

\* some numeric answer of the chosen mode fails to parse
NumericUnparsed ==
    \/ mode \in {S_img, S_video, S_sketch, S_sd3, S_upscale}
       /\ NotInt(typed.seed, D_42)
    \/ mode = S_video
       /\ (NotFloat(typed.cfg_scale, D_7_5) \/ NotInt(typed.motion_bucket_id, D_127))
    \/ mode = S_3d
       /\ (NotFloat(typed.foreground_ratio, D_0_85)
           \/ NotInt(typed.vertex_count, D_20000))
    \/ mode = S_3d_aware
       /\ (NotFloat(typed.foreground_ratio, D_1_0)
           \/ NotInt(typed.vertex_count, D_20000))
    \/ mode = S_sketch /\ NotFloat(typed.control_strength, D_0_7)
    \/ mode = S_upscale /\ NotFloat(typed.creativity, D_0_3)

\* a strength, in hundredths, lies in [0, 1]
Normalized(text, value) == ~FloatIsNaN(text) /\ 0 <= value /\ value <= 100

\* C18: a run in which a numeric answer (seed, CFG scale, motion bucket id,
\* foreground ratio, vertex count, control strength, creativity) fails to
\* parse has ended with exit status 1 without any HTTP request; and once a
\* sketch or upscale request has been issued, the control strength or
\* creativity it carries lies in [0, 1].
C18_NumbersCheckedBeforeNetwork ==
    /\ (Running /\ mode \in Modes /\ NumericUnparsed) =>
           (pc = "exited" /\ exitCode = "1" /\ posts = 0 /\ gets = 0)
    /\ (posts > 0 /\ mode = S_sketch) =>
           Normalized(Typed(typed.control_strength, D_0_7), data.control_strength)
    /\ (posts > 0 /\ mode = S_upscale) =>
           Normalized(Typed(typed.creativity, D_0_3), data.creativity)

C18_Witness ==
    /\ mode = S_sketch /\ pc = "exited" /\ posts = 0
    /\ typed.path = F_a /\ typed.prompt = S_cat
    /\ typed.control_strength = <<"x">>
    /\ err = "Control strength must be a number."

\* the keys under which the helper looks for a path in the parameter mapping
PathKeys == {"image", "mask"}
HoldsPath(params, key) == key \in DOMAIN params /\ params[key] # <<>>

\* C19: once the synchronous helper has issued its POST, every "image" or
\* "mask" path of the parameter mapping is matched by an attachment of that
\* name, and the placeholder part is among the files only if the mapping held
\* no such path.
C19_PathMeansAttachment ==
    (posts > 0 /\ mode \in SyncModes) =>
        /\ \A key \in PathKeys :
              HoldsPath(SyncParams, key) => \E f \in files : f[1] = key
        /\ <<"none", "placeholder">> \in files =>
              \A key \in PathKeys : ~HoldsPath(SyncParams, key)

\* the calls of stage (c), in the order they were made
StageCCalls == SelectSeq(calls, LAMBDA c : c.fn \in {"explanation", "image_prompt"})

\* the loop over the outline is over
LoopOver == pc \in {"tc_save", "pj_save", "pj_tail", "done"}

\* C20: stage (c) keeps the outline intact. While it runs, the k-th entry
\* processed is the k-th entry of the outline with the same id and title and
\* with an explanation and an img_prompt, and the calls made for the entries
\* are, entry after entry, one explanation call for its title followed by
\* one image-prompt call for its title and that explanation; when the loop
\* is over, there are as many processed entries as outline entries.
C20_StageCKeepsOutline ==
    /\ Len(processed_list) <= Len(items)
    /\ LoopOver => Len(processed_list) = Len(items)
    /\ \A k \in 1..Len(processed_list) :
          /\ DOMAIN processed_list[k] = {"id", "title", "explanation", "img_prompt"}
          /\ processed_list[k].id = items[k].id
          /\ processed_list[k].title = items[k].title
          /\ processed_list[k].explanation # None
          /\ processed_list[k].img_prompt # None
          /\ StageCCalls[2 * k - 1] = Call("explanation", items[k].title, <<>>)
          /\ StageCCalls[2 * k] =
                Call("image_prompt", items[k].title, processed_list[k].explanation)
    /\ Len(StageCCalls) - 2 * Len(processed_list) \in {0, 1}
    /\ LoopOver => Len(StageCCalls) = 2 * Len(processed_list)
    /\ Len(StageCCalls) = 2 * Len(processed_list) + 1 =>
          StageCCalls[Len(StageCCalls)]
              = Call("explanation", items[Len(processed_list) + 1].title, <<>>)

C20_Witness ==
    /\ pc = "done" /\ Len(items) = 2 /\ Len(processed_list) = 2
    /\ items[1].id = <<"1">> /\ items[2].id = <<"1", ".", "1">>
    /\ processed_list[2].title = <<"b">>
    /\ processed_list[1].explanation = T_no_explanation
    /\ Len(StageCCalls) = 4 /\ written # <<>>

\* C21: in the shared poller the timeout is looked at only after a 202
\* answer.  Whatever timeout the caller passes, the poller never ends, with a
\* result or with a timeout, before a status GET was issued; a timeout
\* failure is only ever declared on a 202 answer examined with more than the
\* timeout elapsed; and a success answer other than 202 is returned as the
\* result however long after the start of polling it arrives.
C21_TimeoutOnlyAfter202 ==
    /\ []((pc = "polled" \/ err = "Timeout") => gets >= 1)
    /\ [](err = "Timeout" => (resp.status = 202 /\ now - start > timeout))
    /\ [][(pc = "poll_check" /\ Final(resp.status))
             => (pc' = "polled" /\ resp' = resp /\ err' = "")]_vars
    /\ [][(err' = "Timeout" /\ err # "Timeout")
             => (pc = "poll_check" /\ resp.status = 202)]_vars

\* a result that arrives after the default timeout has run out is returned
C21_Witness ==
    /\ pc = "polled" /\ timeout = Timeout /\ gets > 1
    /\ Final(resp.status) /\ now - start > timeout

\* the characters str.strip() removes
WhiteSpace == {" ", "\n"}

\* a text without leading or trailing whitespace
Trimmed(s) == s = <<>> \/ (s[1] \notin WhiteSpace /\ s[Len(s)] \notin WhiteSpace)

\* a text begins, or ends, with another
StartsWith(s, t) == Len(t) <= Len(s) /\ SubSeq(s, 1, Len(t)) = t
EndsWith(s, t) == Len(t) <= Len(s) /\ SubSeq(s, Len(s) - Len(t) + 1, Len(s)) = t

\* C22: for every input text parse_list returns exactly one item per
\* non-blank line, in line order (the k-th item is cut from the k-th
\* non-blank line: its id begins the trimmed line and its title ends it);
\* every item has a non-empty title without leading or trailing whitespace,
\* and an id without leading or trailing whitespace that does not contain
\* the separator ". ".
C22_OneCleanItemPerLine ==
    pc = "returned" =>
        /\ Len(ret) = Len(NonBlankLines)
        /\ \A k \in 1..Len(ret) :
              /\ ret[k].title # <<>>
              /\ Trimmed(ret[k].title)
              /\ Trimmed(ret[k].id)
              /\ SepPlaces(ret[k].id) = {}
              /\ StartsWith(Strip(NonBlankLines[k]), ret[k].id)
              /\ EndsWith(Strip(NonBlankLines[k]), ret[k].title)

\* an empty line, then a line whose title follows two blanks
C22_Witness ==
    /\ pc = "returned"
    /\ args.output = <<"\n", "1", ".", " ", " ", "a">>
    /\ Len(splitlines(args.output)) = 2
    /\ ret = <<[id |-> <<"1">>, title |-> <<"a">>]>>

\* the models the dispatcher's menu can select
MenuModels == {"sd3.5-large", "sd3-large-turbo", "sd3-medium"}

\* the form of the sd3 request has been built
Sd3Built == mode = S_sd3 /\ pc \notin {"startup", "mode", "dispatch", "generate"}
                /\ data # <<>>

\* C23: in sd3 mode reached through interactive_main, the negative_prompt
\* field of the request sent to the service is the empty string, whatever
\* model choice and negative prompt were typed: the model passed on is one
\* of sd3.5-large, sd3-large-turbo and sd3-medium, never "sd3", the only
\* model for which generate_sd3 forwards the negative prompt.
C23_Sd3NegativePromptDropped ==
    /\ (mode = S_sd3 /\ pc = "generate") => args.model \in MenuModels
    /\ Sd3Built =>
          /\ data.negative_prompt = <<>>
          /\ data.model = args.model /\ data.model \in MenuModels
          /\ data.model = Sd3Model(typed.model_choice)

\* a negative prompt was typed, the second model chosen, and the request sent
C23_Witness ==
    /\ Sd3Built /\ posts = 1
    /\ Strip(typed.negative_prompt) # <<>>
    /\ args.negative_prompt = Strip(typed.negative_prompt)
    /\ data.model = "sd3-large-turbo"
    /\ data.negative_prompt = <<>>
====
